---- MODULE Spec2Model ----
(***************************************************************************)
(* Bridge lifecycle of the Hue extension: the XState machine of            *)
(* lib/hueBridgeMachine.ts together with the actors it invokes             *)
(* (helpers/hueNetworking.ts, lib/getBridgeConfig.ts,                      *)
(* lib/createHueClient.ts) and the dispatch hook of                        *)
(* hooks/useHueBridgeMachine.ts.                                           *)
(*                                                                         *)
(* JavaScript values: the value undefined of a string-typed field is the   *)
(* string Undefined; an absent BridgeConfig is NoConfig; an absent         *)
(* HueClient is NoClient.  Strings are TLA+ strings; the characters of the *)
(* names that certificate validation inspects are given by Chars.          *)
(***************************************************************************)
EXTENDS Bags, FiniteSets, Integers, Sequences, TLC

VARIABLES state, status, context, live, stale, storage, sessions, preferences, last,
          call, ret

vars == <<state, status, context, live, stale, storage, sessions, preferences, last,
          call, ret>>

-----------------------------------------------------------------------------
(* Bounds of the model *)

\* operations still running after the machine left the state that invoked them
MaxStale == 1
\* HTTP/2 sessions opened during one run
MaxSessions == 2

-----------------------------------------------------------------------------
(* JavaScript values *)

Undefined == "undefined"
NoConfig == [undefined |-> TRUE]
NoClient == 0

\* !!s for a string-typed optional
Truthy(s) == s # Undefined /\ s # ""

-----------------------------------------------------------------------------
(* Sample names (bridge ids and certificate common names) *)

IdLower == "001788fffe23ab12"
IdUpper == "001788FFFE23AB12"
IdOther == "ecb5fafffe0a1b2c"
RootBridgeCN == "root-bridge"
NotHexCN == "hue-bridge-00001"
ShortCN == "001788fffe23ab1"

Names == {IdLower, IdUpper, IdOther, RootBridgeCN, NotHexCN, ShortCN}

\* the characters of each sample name
Chars(s) ==
  CASE s = IdLower -> <<"0", "0", "1", "7", "8", "8", "f", "f", "f", "e", "2", "3", "a", "b", "1", "2">>
    [] s = IdUpper -> <<"0", "0", "1", "7", "8", "8", "F", "F", "F", "E", "2", "3", "A", "B", "1", "2">>
    [] s = IdOther -> <<"e", "c", "b", "5", "f", "a", "f", "f", "f", "e", "0", "a", "1", "b", "2", "c">>
    [] s = RootBridgeCN -> <<"r", "o", "o", "t", "-", "b", "r", "i", "d", "g", "e">>
    [] s = NotHexCN -> <<"h", "u", "e", "-", "b", "r", "i", "d", "g", "e", "-", "0", "0", "0", "0", "1">>
    [] s = ShortCN -> <<"0", "0", "1", "7", "8", "8", "f", "f", "f", "e", "2", "3", "a", "b", "1">>
    [] OTHER -> <<>>

HexDigits ==
  {"0", "1", "2", "3", "4", "5", "6", "7", "8", "9",
   "a", "b", "c", "d", "e", "f", "A", "B", "C", "D", "E", "F"}

\* String.prototype.toLowerCase on one character
LowerChar(ch) ==
  CASE ch = "A" -> "a" [] ch = "B" -> "b" [] ch = "C" -> "c"
    [] ch = "D" -> "d" [] ch = "E" -> "e" [] ch = "F" -> "f"
    [] OTHER -> ch

\* String.prototype.toLowerCase on a sample name
ToLowerCase(s) ==
  IF s \in Names
  THEN CHOOSE t \in Names :
         Chars(t) = [i \in 1..Len(Chars(s)) |-> LowerChar(Chars(s)[i])]
  ELSE s

-----------------------------------------------------------------------------
(* Sample addresses, usernames and certificates *)

PrefIp == "10.0.0.5"
BridgeIp == "192.168.1.2"
Ipv6Literal == "::1"
BadIp == "not-an-ip"
Ipv6Mdns == "fe80::1"

IPv4Literals == {PrefIp, BridgeIp}
IPv6Literals == {Ipv6Literal, Ipv6Mdns}

\* net.isIPv4
isIPv4(s) == s \in IPv4Literals

\* net.isIP: 4, 6, or 0 when the string is no IP literal
isIP(s) == IF s \in IPv4Literals THEN 4 ELSE IF s \in IPv6Literals THEN 6 ELSE 0

PrefUsername == "pref-user"
BridgeUsername == "bridge-user"

\* createPemString: the PEM text of a certificate, a function of its raw bytes
createPemString(cert) == cert.raw

Cert(subject, issuer, raw) == [subjectCN |-> subject, issuerCN |-> issuer, raw |-> raw]

\* the certificates a peer may present
Certificates ==
  { Cert(IdLower, IdLower, "pem-self"),
    Cert(IdLower, RootBridgeCN, "pem-root"),
    Cert(IdUpper, RootBridgeCN, "pem-upper"),
    Cert(IdLower, IdOther, "pem-foreign"),
    Cert(NotHexCN, NotHexCN, "pem-nothex"),
    Cert(ShortCN, RootBridgeCN, "pem-short") }

-----------------------------------------------------------------------------
(* helpers/hueNetworking.ts *)

\* /^([0-9a-fA-F]){16}$/.test(cn)
cnIsValidBridgeId(cn) ==
  /\ Len(Chars(cn)) = 16
  /\ \A i \in 1..Len(Chars(cn)) : Chars(cn)[i] \in HexDigits

\* "ok" when no error is thrown, else the error thrown
validateBridgeCertificate(peerCertificate, bridgeId) ==
  LET subjectCnIsBridgeId == peerCertificate.subjectCN = bridgeId
      hasValidSelfSignedCertificate == peerCertificate.subjectCN = peerCertificate.issuerCN
      isRootBridgeCertificate == peerCertificate.issuerCN = RootBridgeCN
  IN  IF ~cnIsValidBridgeId(peerCertificate.subjectCN) THEN "The CN of the certificate is not a valid Hue Bridge ID"
      ELSE IF ~subjectCnIsBridgeId THEN "Certificate subject's Common Name does not match the Bridge ID"
      ELSE IF ~hasValidSelfSignedCertificate /\ ~isRootBridgeCertificate
           THEN "Certificate issuer's Common Name does not match the expected value"
      ELSE "ok"

\* the answers of the registry: request error, or status code, body text and
\* the array the body parses to
RegistryEntries ==
  { [internalipaddress |-> BridgeIp, id |-> IdLower],
    [internalipaddress |-> PrefIp, id |-> IdUpper] }

RegistryResponses ==
  {[error |-> TRUE, statusCode |-> 0, data |-> "", json |-> <<>>]}
  \cup {[error |-> FALSE, statusCode |-> sc, data |-> "", json |-> <<>>] : sc \in {200, 500}}
  \cup {[error |-> FALSE, statusCode |-> sc, data |-> "[]", json |-> <<>>] : sc \in {200, 500}}
  \cup {[error |-> FALSE, statusCode |-> 200, data |-> "[...]", json |-> <<e>>] : e \in RegistryEntries}
  \cup {[error |-> FALSE, statusCode |-> 200, data |-> "[...]", json |-> <<e1, e2>>] :
          e1 \in RegistryEntries, e2 \in RegistryEntries}

Resolve(v) == [ok |-> TRUE, output |-> v]
Reject(e) == [ok |-> FALSE, error |-> e]

\* variant: the last entry of the array is taken
discoverBridgeUsingHuePublicApi_takesLast(response) ==
  IF response.error THEN Reject("Could not find a Hue Bridge using MeetHue's public API (request error)")
  ELSE IF response.statusCode # 200 THEN Reject("Unexpected status code from MeetHue's public API")
  ELSE IF response.data = "" THEN Reject("Could not find a Hue Bridge using MeetHue's public API")
  ELSE LET hueApiResults == response.json
       IN  IF Len(hueApiResults) = 0
           THEN Reject("Could not find a Hue Bridge using MeetHue's public API")
           ELSE Resolve([ipAddress |-> hueApiResults[Len(hueApiResults)].internalipaddress,
                         id |-> hueApiResults[Len(hueApiResults)].id])

discoverBridgeUsingHuePublicApi(response) ==
  IF response.error THEN Reject("Could not find a Hue Bridge using MeetHue's public API (request error)")
  ELSE IF response.statusCode # 200 THEN Reject("Unexpected status code from MeetHue's public API")
  ELSE IF response.data = "" THEN Reject("Could not find a Hue Bridge using MeetHue's public API")
  ELSE LET hueApiResults == response.json
       IN  IF Len(hueApiResults) = 0
           THEN Reject("Could not find a Hue Bridge using MeetHue's public API")
           ELSE Resolve([ipAddress |-> hueApiResults[1].internalipaddress,
                         id |-> hueApiResults[1].id])

\* what the mDNS browser reports first: a service coming up, or the timeout
MdnsEvents ==
  {[type |-> "timeout", addresses |-> <<>>, bridgeid |-> Undefined]}
  \cup {[type |-> "up", addresses |-> a, bridgeid |-> IdLower] :
          a \in {<<BridgeIp>>, <<Ipv6Mdns, BridgeIp>>, <<Ipv6Mdns>>}}

\* Array.prototype.find(isIPv4)
FindIPv4(addresses) ==
  IF \E i \in 1..Len(addresses) : isIPv4(addresses[i])
  THEN addresses[CHOOSE i \in 1..Len(addresses) :
                   /\ isIPv4(addresses[i])
                   /\ \A j \in 1..(i - 1) : ~isIPv4(addresses[j])]
  ELSE Undefined

discoverBridgeUsingMdns(event) ==
  IF event.type = "up"
  THEN LET ipAddress == FindIPv4(event.addresses)
           id == event.bridgeid
       IN  IF Truthy(ipAddress) THEN Resolve([ipAddress |-> ipAddress, id |-> id])
           ELSE Reject("Could not find a Hue Bridge using mDNS")
  ELSE Reject("Could not find a Hue Bridge using mDNS")

\* the answers of the bridge to the pairing POST
PairingResponses ==
  { [statusCode |-> 500, error |-> Undefined, username |-> Undefined],
    [statusCode |-> 200, error |-> "link button not pressed", username |-> Undefined],
    [statusCode |-> 200, error |-> "unauthorized user", username |-> Undefined],
    [statusCode |-> 200, error |-> Undefined, username |-> BridgeUsername] }

\* errorDescription.charAt(0).toUpperCase() + errorDescription.slice(1)
Capitalize(s) ==
  CASE s = "link button not pressed" -> "Link button not pressed"
    [] s = "unauthorized user" -> "Unauthorized user"
    [] OTHER -> s

getUsernameFromBridge(response) ==
  IF response.statusCode # 200 THEN Reject("Unexpected status code from Hue Bridge")
  ELSE IF Truthy(response.error) THEN Reject(Capitalize(response.error))
  ELSE Resolve(response.username)

\* tlsOutcome: "secureConnect" or "error"
getCertificate(tlsOutcome, peerCertificate, bridgeId) ==
  IF tlsOutcome # "secureConnect" THEN Reject("socket error")
  ELSE IF validateBridgeCertificate(peerCertificate, bridgeId) # "ok"
       THEN Reject(validateBridgeCertificate(peerCertificate, bridgeId))
  ELSE Resolve(peerCertificate)

-----------------------------------------------------------------------------
(* lib/getBridgeConfig.ts *)

BridgeConfig(ip, username, id, pem) ==
  [ipAddress |-> ip, username |-> username, id |-> id, selfSignedCertificate |-> pem]

\* variant: the pairing POST is issued whether or not a username is supplied
getBridgeConfig_alwaysPairs(bridgeIpAddress, bridgeId, bridgeUsername, env) ==
  LET fetched == getCertificate(env.tls, env.cert, bridgeId)
      bridgeCertificate == env.cert
      isSelfSigned == bridgeCertificate.subjectCN = bridgeCertificate.issuerCN
      pemString == createPemString(bridgeCertificate)
      paired == getUsernameFromBridge(env.pairing)
  IN  IF ~fetched.ok THEN [ok |-> FALSE, error |-> fetched.error, posted |-> FALSE]
      ELSE IF ~paired.ok
           THEN [ok |-> FALSE, error |-> paired.error, posted |-> TRUE]
      ELSE [ok |-> TRUE,
            output |-> BridgeConfig(bridgeIpAddress,
                                    IF Truthy(bridgeUsername) THEN bridgeUsername ELSE paired.output,
                                    IF Truthy(bridgeId) THEN bridgeId ELSE bridgeCertificate.subjectCN,
                                    IF isSelfSigned THEN pemString ELSE Undefined),
            posted |-> TRUE]

\* env: the TLS outcome, the certificate the peer presents and the answer to
\* the pairing POST.  posted tells whether the pairing POST was issued.
getBridgeConfig(bridgeIpAddress, bridgeId, bridgeUsername, env) ==
  LET fetched == getCertificate(env.tls, env.cert, bridgeId)
      bridgeCertificate == env.cert
      isSelfSigned == bridgeCertificate.subjectCN = bridgeCertificate.issuerCN
      pemString == createPemString(bridgeCertificate)
      paired == getUsernameFromBridge(env.pairing)
  IN  IF ~fetched.ok THEN [ok |-> FALSE, error |-> fetched.error, posted |-> FALSE]
      ELSE IF ~Truthy(bridgeUsername) /\ ~paired.ok
           THEN [ok |-> FALSE, error |-> paired.error, posted |-> TRUE]
      ELSE [ok |-> TRUE,
            output |-> BridgeConfig(bridgeIpAddress,
                                    IF Truthy(bridgeUsername) THEN bridgeUsername ELSE paired.output,
                                    IF Truthy(bridgeId) THEN bridgeId ELSE bridgeCertificate.subjectCN,
                                    IF isSelfSigned THEN pemString ELSE Undefined),
            posted |-> ~Truthy(bridgeUsername)]

-----------------------------------------------------------------------------
(* lib/createHueClient.ts *)

\* variant: the issuer must be root-bridge whether or not a certificate is pinned
checkServerIdentity_requiresRoot(bridgeConfig, cert) ==
  IF cert.subjectCN # bridgeConfig.id
  THEN "Certificate subject's Common Name does not match the Bridge ID."
  ELSE IF cert.issuerCN # RootBridgeCN
       THEN "Certificate issuer's Common Name does not match the expected value."
  ELSE "ok"

\* "ok" when the check returns undefined, else the error thrown
checkServerIdentity(bridgeConfig, cert) ==
  IF cert.subjectCN # bridgeConfig.id
  THEN "Certificate subject's Common Name does not match the Bridge ID."
  ELSE IF bridgeConfig.selfSignedCertificate = Undefined /\ cert.issuerCN # RootBridgeCN
       THEN "Certificate issuer's Common Name does not match the expected value."
  ELSE IF bridgeConfig.selfSignedCertificate # Undefined /\ cert.issuerCN # bridgeConfig.id
       THEN "Certificate issuer's Common Name does not match the Bridge ID."
  ELSE "ok"

DnsNotFound == "ENOTFOUND"

\* the lookup option: the address the hostname resolves to; dns is what the
\* default DNS lookup answers
lookup(bridgeConfig, hostname, dns) ==
  IF bridgeConfig.ipAddress # Undefined /\ ToLowerCase(hostname) = bridgeConfig.id
  THEN bridgeConfig.ipAddress
  ELSE dns

\* connect(`https://${bridgeConfig.id}`): the URL's host is lower-cased
Authority(bridgeConfig) == ToLowerCase(bridgeConfig.id)

\* the HTTP status codes the bridge answers the authenticated request with
StatusCodes == {200, 403, 404, 500}

\* "Status code: " + response[":status"].toString()
StatusCodeMessage(code) ==
  CASE code = 200 -> "Status code: 200" [] code = 403 -> "Status code: 403"
    [] code = 404 -> "Status code: 404" [] code = 500 -> "Status code: 500"
    [] OTHER -> "Status code: ?"

\* an outcome of createHueClient: status is the :status of the response to
\* GET /clip/v2/resource/bridge, 0 when the attempt ended before a response
ClientResult(ok, opened, error, code) ==
  [ok |-> ok, opened |-> opened, error |-> error, status |-> code]

\* variant: only a 403 answer is a failure, any other status resolves
createHueClient_onlyForbiddenFails(bridgeConfig, env) ==
  LET address == lookup(bridgeConfig, Authority(bridgeConfig), env.dns)
  IN  IF address = DnsNotFound THEN ClientResult(FALSE, FALSE, "getaddrinfo ENOTFOUND", 0)
      ELSE IF env.tls = "timeout" THEN ClientResult(FALSE, FALSE, "Connection timed out.", 0)
      ELSE IF env.tls # "connect" THEN ClientResult(FALSE, FALSE, "session error", 0)
      ELSE IF checkServerIdentity(bridgeConfig, env.cert) # "ok"
           THEN ClientResult(FALSE, FALSE, checkServerIdentity(bridgeConfig, env.cert), 0)
      ELSE IF env.status = 403
           THEN ClientResult(FALSE, TRUE, "Please check your username.", env.status)
      ELSE ClientResult(TRUE, TRUE, Undefined, env.status)

\* env: the DNS answer, the TLS outcome ("connect", "timeout" or "error"), the
\* certificate presented and the status of the authenticated request.
\* opened tells whether the HTTP/2 session was established.
createHueClient(bridgeConfig, env) ==
  LET address == lookup(bridgeConfig, Authority(bridgeConfig), env.dns)
  IN  IF address = DnsNotFound THEN ClientResult(FALSE, FALSE, "getaddrinfo ENOTFOUND", 0)
      ELSE IF env.tls = "timeout" THEN ClientResult(FALSE, FALSE, "Connection timed out.", 0)
      ELSE IF env.tls # "connect" THEN ClientResult(FALSE, FALSE, "session error", 0)
      ELSE IF checkServerIdentity(bridgeConfig, env.cert) # "ok"
           THEN ClientResult(FALSE, FALSE, checkServerIdentity(bridgeConfig, env.cert), 0)
      ELSE IF env.status = 403
           THEN ClientResult(FALSE, TRUE, "Please check your username.", env.status)
      ELSE IF env.status # 200
           THEN ClientResult(FALSE, TRUE, StatusCodeMessage(env.status), env.status)
      ELSE ClientResult(TRUE, TRUE, Undefined, env.status)

ClientEnvs ==
  [dns : {DnsNotFound, BridgeIp}, tls : {"connect", "timeout", "error"},
   cert : Certificates, status : StatusCodes]

LinkEnvs ==
  [tls : {"secureConnect", "error"}, cert : Certificates, pairing : PairingResponses,
   dns : {DnsNotFound, BridgeIp}, clientTls : {"connect", "timeout", "error"},
   status : StatusCodes]

-----------------------------------------------------------------------------
(* Persistent storage: LocalStorage item BRIDGE_CONFIG_KEY *)

NoItem == [undefined |-> TRUE]
Unparsable == [unparsable |-> TRUE]

ConfigKeys == {"ipAddress", "username", "id", "selfSignedCertificate"}

\* JSON.stringify of an object: keys whose value is undefined are left out
JSONStringify(object) ==
  [k \in {key \in DOMAIN object : object[key] # Undefined} |-> object[k]]

\* reading the fields of a parsed object: a missing key reads as undefined
ReadConfig(object) ==
  [k \in ConfigKeys |-> IF k \in DOMAIN object THEN object[k] ELSE Undefined]

StoredConfigs ==
  { BridgeConfig(BridgeIp, BridgeUsername, IdLower, Undefined),
    BridgeConfig(BridgeIp, BridgeUsername, IdLower, "pem-self") }

-----------------------------------------------------------------------------
(* lib/hueBridgeMachine.ts: actors *)

\* getPreferenceValues<Preferences>()
PreferenceValues ==
  [bridgeIpAddress : {Undefined, "", PrefIp, Ipv6Literal, BadIp},
   bridgeUsername : {Undefined, PrefUsername}]

loadPreferences(prefs) ==
  LET bridgeIpAddress == prefs.bridgeIpAddress
      bridgeUsername == prefs.bridgeUsername
  IN  IF Truthy(bridgeIpAddress) /\ isIP(bridgeIpAddress) = 0
      THEN Reject("Bridge IP address is not a valid IPv4 address")
      ELSE Resolve([bridgeIpAddress |-> bridgeIpAddress, bridgeUsername |-> bridgeUsername])

\* variant: the address of the input does not replace the stored one
loadConfiguration_keepsStoredAddress(input, bridgeConfigString) ==
  IF bridgeConfigString = NoItem THEN Resolve([bridgeConfig |-> NoConfig])
  ELSE IF bridgeConfigString = Unparsable THEN Reject("SyntaxError")
  ELSE LET parsed == bridgeConfigString
           merged == [k \in ConfigKeys |->
                        IF k = "username" /\ Truthy(input.bridgeUsername) THEN input.bridgeUsername
                        ELSE ReadConfig(parsed)[k]]
       IN  Resolve([bridgeConfig |-> merged])

loadConfiguration(input, bridgeConfigString) ==
  IF bridgeConfigString = NoItem THEN Resolve([bridgeConfig |-> NoConfig])
  ELSE IF bridgeConfigString = Unparsable THEN Reject("SyntaxError")
  ELSE LET parsed == bridgeConfigString
           merged == [k \in ConfigKeys |->
                        IF k = "ipAddress" /\ Truthy(input.bridgeIpAddress) THEN input.bridgeIpAddress
                        ELSE IF k = "username" /\ Truthy(input.bridgeUsername) THEN input.bridgeUsername
                        ELSE ReadConfig(parsed)[k]]
       IN  Resolve([bridgeConfig |-> merged])

\* opened: whether an HTTP/2 session was established by the attempt
instantiateHueClient(input, env) ==
  IF input.bridgeConfig = NoConfig
  THEN ClientResult(FALSE, FALSE, "Bridge configuration is undefined when trying to connect", 0)
  ELSE createHueClient(input.bridgeConfig, env)

\* variant: the pairing POST is issued before the certificate is fetched
linkWithBridge_pairsFirst(input, env) ==
  IF input.bridgeIpAddress = Undefined
  THEN [ok |-> FALSE, opened |-> FALSE, posted |-> FALSE, bridgeConfig |-> NoConfig,
        error |-> "No bridge IP address"]
  ELSE LET config == getBridgeConfig(input.bridgeIpAddress, input.bridgeId, input.bridgeUsername,
                                     [tls |-> env.tls, cert |-> env.cert, pairing |-> env.pairing])
           client == createHueClient(config.output,
                                     [dns |-> env.dns, tls |-> env.clientTls,
                                      cert |-> env.cert, status |-> env.status])
       IN  IF ~config.ok
           THEN [ok |-> FALSE, opened |-> FALSE, posted |-> ~Truthy(input.bridgeUsername),
                 bridgeConfig |-> NoConfig, error |-> config.error]
           ELSE [ok |-> client.ok, opened |-> client.opened, posted |-> config.posted,
                 bridgeConfig |-> config.output, error |-> client.error]

linkWithBridge(input, env) ==
  IF input.bridgeIpAddress = Undefined
  THEN [ok |-> FALSE, opened |-> FALSE, posted |-> FALSE, bridgeConfig |-> NoConfig,
        error |-> "No bridge IP address"]
  ELSE LET config == getBridgeConfig(input.bridgeIpAddress, input.bridgeId, input.bridgeUsername,
                                     [tls |-> env.tls, cert |-> env.cert, pairing |-> env.pairing])
           client == createHueClient(config.output,
                                     [dns |-> env.dns, tls |-> env.clientTls,
                                      cert |-> env.cert, status |-> env.status])
       IN  IF ~config.ok
           THEN [ok |-> FALSE, opened |-> FALSE, posted |-> config.posted,
                 bridgeConfig |-> NoConfig, error |-> config.error]
           ELSE [ok |-> client.ok, opened |-> client.opened, posted |-> config.posted,
                 bridgeConfig |-> config.output, error |-> client.error]

\* variant: the pinned certificate is left out of the item written
saveBridgeConfigToLocalStorage_dropsCertificate(input) ==
  IF input.bridgeConfig = NoConfig
  THEN Reject("Bridge configuration is undefined when trying to save it")
  ELSE Resolve(JSONStringify([input.bridgeConfig EXCEPT !.selfSignedCertificate = Undefined]))

\* resolves with the item written by LocalStorage.setItem
saveBridgeConfigToLocalStorage(input) ==
  IF input.bridgeConfig = NoConfig
  THEN Reject("Bridge configuration is undefined when trying to save it")
  ELSE Resolve(JSONStringify(input.bridgeConfig))

\* LocalStorage.clear()
unlinkBridge == NoItem

\* guards.bridgeUsernameIsSet
bridgeUsernameIsSet(c) == Truthy(c.bridgeUsername)

-----------------------------------------------------------------------------
(* lib/hueBridgeMachine.ts: the machine *)

States ==
  {"loadingPreferences", "failedToLoadPreferences", "loadingConfiguration", "connecting",
   "connected", "failedToConnect", "discoveringUsingPublicApi", "discoveringUsingMdns",
   "noBridgeFound", "linkWithBridge", "linking", "failedToLink", "linked", "unlinking"}

InitialContext ==
  [bridgeIpAddress |-> Undefined, bridgeUsername |-> Undefined, bridgeId |-> Undefined,
   bridgeConfig |-> NoConfig, hueClient |-> NoClient]

NoActor == [src |-> "none"]
NoInput == [none |-> TRUE]

\* a transition: its target and the context after its assign actions
Goto(target, c) == [target |-> target, context |-> c]
NoTransition == [target |-> "none"]

\* the invoke of each state: the actor started on entry, with its input
Invoke(s, c) ==
  CASE s = "loadingPreferences" -> [src |-> "loadPreferences", input |-> NoInput]
    [] s = "loadingConfiguration" ->
         [src |-> "loadConfiguration",
          input |-> [bridgeIpAddress |-> c.bridgeIpAddress, bridgeUsername |-> c.bridgeUsername]]
    [] s = "connecting" ->
         [src |-> "instantiateHueClient", input |-> [bridgeConfig |-> c.bridgeConfig]]
    [] s = "discoveringUsingPublicApi" ->
         [src |-> "discoverBridgeUsingHuePublicApi",
          input |-> [bridgeIpAddress |-> c.bridgeIpAddress, bridgeUsername |-> c.bridgeUsername]]
    [] s = "discoveringUsingMdns" -> [src |-> "discoverBridgeUsingMdns", input |-> NoInput]
    [] s = "linking" ->
         [src |-> "linkWithBridge",
          input |-> [bridgeIpAddress |-> c.bridgeIpAddress, bridgeId |-> c.bridgeId,
                     bridgeUsername |-> c.bridgeUsername]]
    [] s = "linked" ->
         [src |-> "saveBridgeConfigToLocalStorage", input |-> [bridgeConfig |-> c.bridgeConfig]]
    [] s = "unlinking" -> [src |-> "unlinkBridge", input |-> NoInput]
    [] OTHER -> NoActor

\* variant: the address of the preferences is not put in the context
loadingPreferences_onDone_dropsAddress(c, output) ==
  Goto("loadingConfiguration", [c EXCEPT !.bridgeUsername = output.bridgeUsername])

loadingPreferences_onDone(c, output) ==
  Goto("loadingConfiguration",
       [c EXCEPT !.bridgeIpAddress = output.bridgeIpAddress,
                 !.bridgeUsername = output.bridgeUsername])

loadingPreferences_onError(c) == Goto("failedToLoadPreferences", c)

\* variant: the address guard is tried before the stored-configuration guard
loadingConfiguration_onDone_addressFirst(c, output) ==
  IF Truthy(c.bridgeIpAddress) THEN Goto("linking", c)
  ELSE IF output.bridgeConfig # NoConfig
  THEN Goto("connecting", [c EXCEPT !.bridgeConfig = output.bridgeConfig])
  ELSE Goto("discoveringUsingPublicApi", c)

loadingConfiguration_onDone(c, output) ==
  IF output.bridgeConfig # NoConfig
  THEN Goto("connecting", [c EXCEPT !.bridgeConfig = output.bridgeConfig])
  ELSE IF Truthy(c.bridgeIpAddress) THEN Goto("linking", c)
  ELSE Goto("discoveringUsingPublicApi", c)

connecting_onDone(c, output) == Goto("connected", [c EXCEPT !.hueClient = output])

connecting_onError(c) == Goto("failedToConnect", c)

discoveringUsingPublicApi_onDone(c, output) ==
  IF bridgeUsernameIsSet(c)
  THEN Goto("linking", [c EXCEPT !.bridgeIpAddress = output.ipAddress, !.bridgeId = output.id])
  ELSE Goto("linkWithBridge", [c EXCEPT !.bridgeIpAddress = output.ipAddress, !.bridgeId = output.id])

\* variant: a registry failure gives up without trying mDNS
discoveringUsingPublicApi_onError_givesUp(c) == Goto("noBridgeFound", c)

discoveringUsingPublicApi_onError(c) == Goto("discoveringUsingMdns", c)

\* variant: linking is entered whether or not a username is known
discoveringUsingMdns_onDone_alwaysLinks(c, output) ==
  Goto("linking", [c EXCEPT !.bridgeIpAddress = output.ipAddress, !.bridgeId = output.id])

discoveringUsingMdns_onDone(c, output) ==
  IF bridgeUsernameIsSet(c)
  THEN Goto("linking", [c EXCEPT !.bridgeIpAddress = output.ipAddress, !.bridgeId = output.id])
  ELSE Goto("linkWithBridge", [c EXCEPT !.bridgeIpAddress = output.ipAddress, !.bridgeId = output.id])

discoveringUsingMdns_onError(c) == Goto("noBridgeFound", c)

linking_onDone(c, output) ==
  Goto("linked", [c EXCEPT !.bridgeConfig = output.bridgeConfig, !.hueClient = output.hueClient])

\* variant: a failed link attempt forgets the username
linking_onError_forgetsUsername(c) ==
  Goto("failedToLink", [c EXCEPT !.bridgeUsername = Undefined])

linking_onError(c) == Goto("failedToLink", c)

\* variant: after the storage is cleared the machine connects again
unlinking_onDone_reconnects(c, prefs) ==
  Goto("connecting",
       [c EXCEPT !.bridgeUsername = prefs.bridgeUsername,
                 !.bridgeId = Undefined,
                 !.bridgeConfig = NoConfig])

unlinking_onDone(c, prefs) ==
  IF Truthy(prefs.bridgeIpAddress)
  THEN Goto("linking",
            [c EXCEPT !.bridgeUsername = prefs.bridgeUsername,
                      !.bridgeId = Undefined,
                      !.bridgeConfig = NoConfig])
  ELSE Goto("discoveringUsingPublicApi",
            [c EXCEPT !.bridgeIpAddress = Undefined,
                      !.bridgeUsername = prefs.bridgeUsername,
                      !.bridgeId = Undefined,
                      !.bridgeConfig = NoConfig])

\* the `on` of each state and of the machine: the target for an event type
failedToConnect_on(type) == IF type = "RETRY" THEN "connecting" ELSE "none"
noBridgeFound_on(type) == IF type = "RETRY" THEN "discoveringUsingPublicApi" ELSE "none"
linkWithBridge_on(type) == IF type = "LINK" THEN "linking" ELSE "none"
\* variant: failedToLink starts the next link attempt on LINK as well
failedToLink_on_acceptsLink(type) == IF type \in {"RETRY", "LINK"} THEN "linking" ELSE "none"

failedToLink_on(type) == IF type = "RETRY" THEN "linking" ELSE "none"
linked_on(type) == IF type = "DONE" THEN "connecting" ELSE "none"
\* variant: the machine also handles LINK, in whatever state it is
machine_on_linksAnywhere(type) ==
  IF type = "UNLINK" THEN "unlinking" ELSE IF type = "LINK" THEN "linking" ELSE "none"

machine_on(type) == IF type = "UNLINK" THEN "unlinking" ELSE "none"

\* transition selection: the handler of the active state wins over the machine's
OnEvent(s, type) ==
  LET own == CASE s = "failedToConnect" -> failedToConnect_on(type)
               [] s = "noBridgeFound" -> noBridgeFound_on(type)
               [] s = "linkWithBridge" -> linkWithBridge_on(type)
               [] s = "failedToLink" -> failedToLink_on(type)
               [] s = "linked" -> linked_on(type)
               [] OTHER -> "none"
  IN  IF own # "none" THEN own ELSE machine_on(type)

\* states of type "final": reaching one completes and stops the machine actor
FinalStates == {"connected"}

-----------------------------------------------------------------------------
(* The outcomes each actor can settle with, over every answer of its peers *)

ContextIps == {Undefined, "", PrefIp, Ipv6Literal, BridgeIp}
ContextIds == {Undefined, IdLower, IdUpper}
ContextUsernames == {Undefined, PrefUsername}

LinkInputs ==
  [bridgeIpAddress : ContextIps, bridgeId : ContextIds, bridgeUsername : ContextUsernames]

BridgeConfigs ==
  { BridgeConfig(ip, username, id, pem) :
      ip \in ContextIps \ {Undefined},
      username \in {PrefUsername, BridgeUsername},
      id \in ContextIds \ {Undefined},
      pem \in {Undefined} \cup {createPemString(cert) : cert \in Certificates} }

ConnectInputs == [bridgeConfig : BridgeConfigs \cup {NoConfig}]

PublicApiOutcomes ==
  {discoverBridgeUsingHuePublicApi(response) : response \in RegistryResponses}

MdnsOutcomes == {discoverBridgeUsingMdns(event) : event \in MdnsEvents}

\* the outcome sets are tabulated once per input
LinkWithBridgeTable ==
  {<<input, {linkWithBridge(input, env) : env \in LinkEnvs}>> : input \in LinkInputs}

LinkWithBridgeOutcomes(input) == (CHOOSE entry \in LinkWithBridgeTable : entry[1] = input)[2]

InstantiateHueClientTable ==
  {<<input, {instantiateHueClient(input, env) : env \in ClientEnvs}>> : input \in ConnectInputs}

InstantiateHueClientOutcomes(input) ==
  (CHOOSE entry \in InstantiateHueClientTable : entry[1] = input)[2]

-----------------------------------------------------------------------------
(* State

   state, status, context   the machine actor's snapshot: active state,
                            "active" / "done" (a final state was reached) /
                            "error" (an invoked actor failed with no onError),
                            and the context
   live                     the actor invoked by the active state while its
                            promise is pending, else NoActor
   stale                    promises of actors whose invoking state was left
                            before they settled: they still run to completion
                            but their outcome is discarded
   storage                  the LocalStorage item BRIDGE_CONFIG_KEY
   sessions                 the HTTP/2 sessions established so far (none is
                            ever closed by the code modelled here)
   preferences              getPreferenceValues()
   last                     the last step taken: what happened, in which
                            state, and for a settled connect attempt the
                            error it rejected with and the status the bridge
                            answered, for a settled link attempt its error
                            and whether it issued the pairing POST and
                            established a session, for a successful
                            discovery its output
   call, ret                a call of one of the helper functions on its own,
                            outside the machine, and what it returned; NoCall
                            throughout the runs of the machine                 *)

NoDetail == [none |-> TRUE]
NoCall == [fn |-> "none"]

\* a step: type is "init", "event", "done", "error" or "discarded", name the
\* event type or the actor that settled, from the state it happened in
Step(type, name, from, detail) ==
  [type |-> type, name |-> name, from |-> from, detail |-> detail]

Init ==
  /\ preferences \in PreferenceValues
  /\ storage \in {NoItem} \cup {JSONStringify(c) : c \in StoredConfigs}
  /\ state = "loadingPreferences"
  /\ status = "active"
  /\ context = InitialContext
  /\ live = Invoke("loadingPreferences", InitialContext)
  /\ stale = EmptyBag
  /\ sessions = {}
  /\ last = Step("init", "xstate.init", "loadingPreferences", NoDetail)
  /\ call = NoCall
  /\ ret = NoCall

\* the state t.target is entered with context t.context and its invoke is
\* started; the promises in abandoned keep running
Enter(t, abandoned) ==
  /\ state' = t.target
  /\ context' = t.context
  /\ live' = Invoke(t.target, t.context)
  /\ status' = IF t.target \in FinalStates THEN "done" ELSE status
  /\ stale' = stale (+) abandoned

\* the pending promises: the live actor's, whose outcome is delivered to the
\* machine, and the stale ones
Running ==
  (IF live # NoActor THEN {[actor |-> live, delivered |-> TRUE]} ELSE {})
  \cup {[actor |-> a, delivered |-> FALSE] : a \in BagToSet(stale)}

\* variant: the outcome of a stale promise is delivered like the live one's
SettleWith_appliesStale(r, kind, t, detail) ==
  /\ last' = Step(IF r.delivered THEN kind ELSE "discarded", r.actor.src, state, detail)
  /\ IF t = NoTransition
     THEN /\ live' = IF r.delivered THEN NoActor ELSE live
          /\ status' = IF kind = "error" /\ r.delivered THEN "error" ELSE status
          /\ stale' = IF r.delivered THEN stale ELSE stale (-) SetToBag({r.actor})
          /\ UNCHANGED <<state, context>>
     ELSE /\ state' = t.target
          /\ context' = t.context
          /\ live' = Invoke(t.target, t.context)
          /\ status' = IF t.target \in FinalStates THEN "done" ELSE status
          /\ stale' = IF r.delivered THEN stale ELSE stale (-) SetToBag({r.actor})

\* the promise r settles; kind is "done" or "error" and t the transition the
\* active state declares for that outcome (NoTransition when it declares none)
SettleWith(r, kind, t, detail) ==
  IF r.delivered
  THEN /\ last' = Step(kind, r.actor.src, state, detail)
       /\ IF t = NoTransition
          THEN /\ live' = NoActor
               /\ status' = IF kind = "error" THEN "error" ELSE status
               /\ UNCHANGED <<state, context, stale>>
          ELSE Enter(t, EmptyBag)
  ELSE /\ last' = Step("discarded", r.actor.src, state, NoDetail)
       /\ stale' = stale (-) SetToBag({r.actor})
       /\ UNCHANGED <<state, status, context, live>>

Settle(r, kind, t) == SettleWith(r, kind, t, NoDetail)

\* hooks/useHueBridgeMachine.ts: send({ type: message.toUpperCase() }).
\* An event sent to a machine actor that is no longer active is dropped.
\* loadPreferences awaits nothing, so its promise settles in the microtasks
\* that follow its start, before any message of the UI can be dispatched.
HueMessages == {"retry", "link", "unlink", "done"}

\* String.prototype.toUpperCase on a message
ToUpperCase(message) ==
  CASE message = "retry" -> "RETRY" [] message = "link" -> "LINK"
    [] message = "unlink" -> "UNLINK" [] message = "done" -> "DONE"
    [] OTHER -> message

sendHueMessage(message) ==
  LET type == ToUpperCase(message)
      target == OnEvent(state, type)
  IN  /\ live.src # "loadPreferences"
      /\ last' = Step("event", type, state, NoDetail)
      /\ IF status # "active" \/ target = "none"
         THEN UNCHANGED <<state, status, context, live, stale>>
         ELSE /\ live # NoActor => BagCardinality(stale) < MaxStale
              /\ Enter(Goto(target, context),
                       IF live # NoActor THEN SetToBag({live}) ELSE EmptyBag)
      /\ UNCHANGED <<storage, sessions, preferences, call, ret>>

LoadPreferencesSettles ==
  \E r \in Running :
    /\ r.actor.src = "loadPreferences"
    /\ LET result == loadPreferences(preferences)
       IN  IF result.ok
           THEN Settle(r, "done", loadingPreferences_onDone(context, result.output))
           ELSE Settle(r, "error", loadingPreferences_onError(context))
    /\ UNCHANGED <<storage, sessions, preferences, call, ret>>

LoadConfigurationSettles ==
  \E r \in Running :
    /\ r.actor.src = "loadConfiguration"
    /\ LET result == loadConfiguration(r.actor.input, storage)
       IN  IF result.ok
           THEN Settle(r, "done", loadingConfiguration_onDone(context, result.output))
           ELSE Settle(r, "error", NoTransition)
    /\ UNCHANGED <<storage, sessions, preferences, call, ret>>

\* the sessions after an attempt on bridgeConfig that established one; handle
\* tells whether the attempt resolved with a HueClient holding the session
Opened(bridgeConfig, src, handle) ==
  sessions \cup {[n |-> Cardinality(sessions) + 1, id |-> bridgeConfig.id,
                  by |-> src, handle |-> handle]}

InstantiateHueClientSettles ==
  \E r \in Running :
    /\ r.actor.src = "instantiateHueClient"
    /\ \E result \in InstantiateHueClientOutcomes(r.actor.input) :
           /\ result.opened => Cardinality(sessions) < MaxSessions
           /\ sessions' = IF result.opened
                          THEN Opened(r.actor.input.bridgeConfig, r.actor.src, result.ok)
                          ELSE sessions
           /\ LET detail == [error |-> result.error, status |-> result.status]
              IN  IF result.ok
                  THEN SettleWith(r, "done",
                                  connecting_onDone(context, Cardinality(sessions) + 1), detail)
                  ELSE SettleWith(r, "error", connecting_onError(context), detail)
    /\ UNCHANGED <<storage, preferences, call, ret>>

DiscoverBridgeUsingHuePublicApiSettles ==
  \E r \in Running :
    /\ r.actor.src = "discoverBridgeUsingHuePublicApi"
    /\ \E result \in PublicApiOutcomes :
           IF result.ok
           THEN SettleWith(r, "done", discoveringUsingPublicApi_onDone(context, result.output),
                           result.output)
           ELSE Settle(r, "error", discoveringUsingPublicApi_onError(context))
    /\ UNCHANGED <<storage, sessions, preferences, call, ret>>

DiscoverBridgeUsingMdnsSettles ==
  \E r \in Running :
    /\ r.actor.src = "discoverBridgeUsingMdns"
    /\ \E result \in MdnsOutcomes :
           IF result.ok
           THEN SettleWith(r, "done", discoveringUsingMdns_onDone(context, result.output),
                           result.output)
           ELSE Settle(r, "error", discoveringUsingMdns_onError(context))
    /\ UNCHANGED <<storage, sessions, preferences, call, ret>>

LinkWithBridgeSettles ==
  \E r \in Running :
    /\ r.actor.src = "linkWithBridge"
    /\ \E result \in LinkWithBridgeOutcomes(r.actor.input) :
           /\ result.opened => Cardinality(sessions) < MaxSessions
           /\ sessions' = IF result.opened
                          THEN Opened(result.bridgeConfig, r.actor.src, result.ok)
                          ELSE sessions
           /\ LET detail == [error |-> result.error, posted |-> result.posted,
                             opened |-> result.opened]
              IN  IF result.ok
                  THEN SettleWith(r, "done",
                                  linking_onDone(context, [bridgeConfig |-> result.bridgeConfig,
                                                           hueClient |-> Cardinality(sessions) + 1]),
                                  detail)
                  ELSE SettleWith(r, "error", linking_onError(context), detail)
    /\ UNCHANGED <<storage, preferences, call, ret>>

SaveBridgeConfigToLocalStorageSettles ==
  \E r \in Running :
    /\ r.actor.src = "saveBridgeConfigToLocalStorage"
    /\ LET result == saveBridgeConfigToLocalStorage(r.actor.input)
       IN  IF result.ok
           THEN /\ storage' = result.output
                /\ Settle(r, "done", NoTransition)
           ELSE /\ storage' = storage
                /\ Settle(r, "error", NoTransition)
    /\ UNCHANGED <<sessions, preferences, call, ret>>

UnlinkBridgeSettles ==
  \E r \in Running :
    /\ r.actor.src = "unlinkBridge"
    /\ storage' = unlinkBridge
    /\ Settle(r, "done", unlinking_onDone(context, preferences))
    /\ UNCHANGED <<sessions, preferences, call, ret>>

Next ==
  \/ \E message \in HueMessages : sendHueMessage(message)
  \/ LoadPreferencesSettles
  \/ LoadConfigurationSettles
  \/ InstantiateHueClientSettles
  \/ DiscoverBridgeUsingHuePublicApiSettles
  \/ DiscoverBridgeUsingMdnsSettles
  \/ LinkWithBridgeSettles
  \/ SaveBridgeConfigToLocalStorageSettles
  \/ UnlinkBridgeSettles

Spec == Init /\ [][Next]_vars

\* the run starts with whatever the storage item holds: LocalStorage outlives
\* the run and is shared with every other version of the extension, so the
\* item need not be the output of JSON.stringify
InitAnyStorage ==
  /\ preferences \in PreferenceValues
  /\ storage \in {NoItem, Unparsable} \cup {JSONStringify(c) : c \in StoredConfigs}
  /\ state = "loadingPreferences"
  /\ status = "active"
  /\ context = InitialContext
  /\ live = Invoke("loadingPreferences", InitialContext)
  /\ stale = EmptyBag
  /\ sessions = {}
  /\ last = Step("init", "xstate.init", "loadingPreferences", NoDetail)
  /\ call = NoCall
  /\ ret = NoCall

SpecAnyStorage == InitAnyStorage /\ [][Next]_vars

\* every pending promise eventually settles; messages are dispatched only when
\* the user chooses to
FairSpec ==
  /\ Spec
  /\ WF_vars(LoadPreferencesSettles)
  /\ WF_vars(LoadConfigurationSettles)
  /\ WF_vars(InstantiateHueClientSettles)
  /\ WF_vars(DiscoverBridgeUsingHuePublicApiSettles)
  /\ WF_vars(DiscoverBridgeUsingMdnsSettles)
  /\ WF_vars(LinkWithBridgeSettles)
  /\ WF_vars(SaveBridgeConfigToLocalStorageSettles)
  /\ WF_vars(UnlinkBridgeSettles)

-----------------------------------------------------------------------------
(* The helper functions called on their own: the call is drawn from the
   arguments and peer answers below, and the one step of a run returns what
   the function computes *)

ExpectedIds == {Undefined, IdLower, IdUpper, IdOther}

CertificateEnvs == [tls : {"secureConnect", "error"}, cert : Certificates, pairing : PairingResponses]

\* the configurations createHueClient is called with
HelperConfigs ==
  { BridgeConfig(ip, BridgeUsername, id, pem) :
      ip \in {PrefIp, BridgeIp}, id \in {IdLower, IdUpper, IdOther, NotHexCN},
      pem \in {Undefined, "pem-self"} }

HelperCalls ==
  {[fn |-> "validateBridgeCertificate", peerCertificate |-> cert, bridgeId |-> id] :
      cert \in Certificates, id \in ExpectedIds}
  \cup {[fn |-> "discoverBridgeUsingHuePublicApi", response |-> response] :
          response \in RegistryResponses}
  \cup {[fn |-> "getBridgeConfig", bridgeIpAddress |-> ip, bridgeId |-> id,
          bridgeUsername |-> username, env |-> env] :
          ip \in {PrefIp, BridgeIp}, id \in ContextIds,
          username \in {Undefined, "", PrefUsername}, env \in CertificateEnvs}
  \cup {[fn |-> "lookup", bridgeConfig |-> config, dns |-> dns] :
          config \in HelperConfigs, dns \in {DnsNotFound, BridgeIp}}
  \cup {[fn |-> "checkServerIdentity", bridgeConfig |-> config, cert |-> cert] :
          config \in HelperConfigs, cert \in Certificates}

Returned(value) == [fn |-> call.fn, value |-> value]

HelperInit ==
  /\ call \in HelperCalls
  /\ ret = NoCall
  /\ preferences = [bridgeIpAddress |-> Undefined, bridgeUsername |-> Undefined]
  /\ storage = NoItem
  /\ state = "loadingPreferences"
  /\ status = "active"
  /\ context = InitialContext
  /\ live = Invoke("loadingPreferences", InitialContext)
  /\ stale = EmptyBag
  /\ sessions = {}
  /\ last = Step("init", "xstate.init", "loadingPreferences", NoDetail)

machineVars == <<state, status, context, live, stale, storage, sessions, preferences, last>>

ValidateBridgeCertificateReturns ==
  /\ call.fn = "validateBridgeCertificate"
  /\ ret = NoCall
  /\ ret' = Returned(validateBridgeCertificate(call.peerCertificate, call.bridgeId))
  /\ UNCHANGED <<machineVars, call>>

DiscoverBridgeUsingHuePublicApiReturns ==
  /\ call.fn = "discoverBridgeUsingHuePublicApi"
  /\ ret = NoCall
  /\ ret' = Returned(discoverBridgeUsingHuePublicApi(call.response))
  /\ UNCHANGED <<machineVars, call>>

GetBridgeConfigReturns ==
  /\ call.fn = "getBridgeConfig"
  /\ ret = NoCall
  /\ ret' = Returned(getBridgeConfig(call.bridgeIpAddress, call.bridgeId,
                                     call.bridgeUsername, call.env))
  /\ UNCHANGED <<machineVars, call>>

\* the lookup option is called with the hostname of the URL given to connect
LookupReturns ==
  /\ call.fn = "lookup"
  /\ ret = NoCall
  /\ ret' = Returned(lookup(call.bridgeConfig, Authority(call.bridgeConfig), call.dns))
  /\ UNCHANGED <<machineVars, call>>

CheckServerIdentityReturns ==
  /\ call.fn = "checkServerIdentity"
  /\ ret = NoCall
  /\ ret' = Returned(checkServerIdentity(call.bridgeConfig, call.cert))
  /\ UNCHANGED <<machineVars, call>>

HelperNext ==
  \/ ValidateBridgeCertificateReturns
  \/ DiscoverBridgeUsingHuePublicApiReturns
  \/ GetBridgeConfigReturns
  \/ LookupReturns
  \/ CheckServerIdentityReturns

HelperSpec == HelperInit /\ [][HelperNext]_vars

\* the mDNS browsers not stopped yet, one per pending discoverBridgeUsingMdns
\* promise: the browser is stopped when its first "up" arrives or when the
\* 10-second timer fires, which is when the promise settles
LiveBrowsers == {r \in Running : r.actor.src = "discoverBridgeUsingMdns"}

-----------------------------------------------------------------------------
(* Properties *)

\* the step just taken: the actor src, live in the active state, settled with
\* the outcome type ("done" or "error")
Settled(type, src) == last.type = type /\ last.name = src

\* the step just taken: the event type was dispatched while the machine was in s
Dispatched(type, s) == last.type = "event" /\ last.name = type /\ last.from = s

\* C1: discovery fallback ordering. A failure of registry discovery is followed
\* by the start of local discovery; local discovery is started only by such a
\* failure, and noBridgeFound is entered only by a failure of the local
\* discovery that followed it.
C1_DiscoveryFallbackOrdering ==
  [][ /\ (last'.type = "error" /\ last'.name = "discoverBridgeUsingHuePublicApi")
           => /\ state = "discoveringUsingPublicApi"
              /\ state' = "discoveringUsingMdns"
              /\ live'.src = "discoverBridgeUsingMdns"
      /\ (state' = "discoveringUsingMdns" /\ state # "discoveringUsingMdns")
           => /\ state = "discoveringUsingPublicApi"
              /\ last'.type = "error"
              /\ last'.name = "discoverBridgeUsingHuePublicApi"
      /\ (state = "discoveringUsingMdns" /\ state' \notin {"discoveringUsingMdns", "unlinking"})
           => last'.name = "discoverBridgeUsingMdns" /\ last'.type \in {"done", "error"}
      /\ (state' = "noBridgeFound" /\ state # "noBridgeFound")
           => /\ state = "discoveringUsingMdns"
              /\ last'.type = "error"
              /\ last'.name = "discoverBridgeUsingMdns"
    ]_vars

\* both discoveries have failed, in order, and noBridgeFound was entered
C1_Witness ==
  /\ state = "noBridgeFound"
  /\ Settled("error", "discoverBridgeUsingMdns")
  /\ last.from = "discoveringUsingMdns"

\* C2: when loadConfiguration resolves, the machine enters connecting if the
\* storage held a configuration, else linking if the preferences give an
\* address, else discoveringUsingPublicApi; up to the connect attempt only
\* loadingPreferences and loadingConfiguration were visited, whose actors are
\* loadPreferences and loadConfiguration.
C2_LoadingConfigurationRouting ==
  [][ /\ (last'.type = "done" /\ last'.name = "loadConfiguration")
           => /\ state = "loadingConfiguration"
              /\ state' = IF storage # NoItem THEN "connecting"
                          ELSE IF Truthy(preferences.bridgeIpAddress) THEN "linking"
                          ELSE "discoveringUsingPublicApi"
              /\ state' = "connecting" =>
                   /\ live'.src = "instantiateHueClient"
                   /\ context'.bridgeConfig # NoConfig
                   /\ sessions' = {}
      /\ (state' = "loadingConfiguration" /\ state # "loadingConfiguration")
           => state = "loadingPreferences" /\ live.src = "loadPreferences"
      /\ state' = "loadingPreferences" => state = "loadingPreferences"
      /\ state' = "loadingConfiguration" => live'.src \in {"loadConfiguration", "none"}
    ]_vars

\* a stored configuration was found and connecting was entered
C2_Witness ==
  /\ state = "connecting"
  /\ Settled("done", "loadConfiguration")
  /\ context.bridgeConfig # NoConfig

\* C3: an unlink dispatched in any state leaves the machine in unlinking
C3_UnlinkFromEveryState ==
  (last.type = "event" /\ last.name = "UNLINK") => state = "unlinking"

\* C4: when unlinkBridge resolves, the machine is in linking with the
\* preference address in the context if the preferences give an address, and
\* in discoveringUsingPublicApi with no address in the context otherwise
C4_UnlinkingRouting ==
  Settled("done", "unlinkBridge") =>
    IF Truthy(preferences.bridgeIpAddress)
    THEN state = "linking" /\ context.bridgeIpAddress = preferences.bridgeIpAddress
    ELSE state = "discoveringUsingPublicApi" /\ context.bridgeIpAddress = Undefined

\* C5: when unlinkBridge resolves, the storage item is absent and the context
\* holds no bridge id, no BridgeConfig and no HueClient
C5_UnlinkingResets ==
  Settled("done", "unlinkBridge") =>
    /\ storage = NoItem
    /\ context.bridgeId = Undefined
    /\ context.bridgeConfig = NoConfig
    /\ context.hueClient = NoClient

\* C6: once the configuration has been saved in linked, connecting is entered
\* before any event is dispatched
C6_LinkedLeadsToConnecting ==
  (state = "linked" /\ Settled("done", "saveBridgeConfigToLocalStorage"))
    ~> (state = "connecting" \/ last.type = "event")

\* C7: while connecting, and in failedToConnect, the context holds no HueClient
C7_ConnectingInvalidatesHandle ==
  state \in {"connecting", "failedToConnect"} => context.hueClient = NoClient

\* C8: the context holds a HueClient only in connected
C8_HandleOnlyWhenConnected ==
  context.hueClient # NoClient => state = "connected"

\* C9: no two sessions handed out as HueClient are open for the same bridge id
C9_OneSessionPerBridge ==
  \A s1 \in sessions, s2 \in sessions :
    (s1.handle /\ s2.handle /\ s1.id = s2.id) => s1 = s2

\* C10: a failed link attempt leaves the context as it was and enters
\* failedToLink; nothing changes the context there; RETRY enters linking and
\* invokes linkWithBridge with the address, bridge id and username of the
\* context, which are those the failed attempt was invoked with.
C10_RetryLinkSameInputs ==
  [][ /\ (last'.type = "error" /\ last'.name = "linkWithBridge")
           => /\ state = "linking"
              /\ state' = "failedToLink"
              /\ context' = context
              /\ live.input = [bridgeIpAddress |-> context.bridgeIpAddress,
                               bridgeId |-> context.bridgeId,
                               bridgeUsername |-> context.bridgeUsername]
      /\ state = "failedToLink" => context' = context
      /\ (state = "failedToLink" /\ last'.type = "event" /\ last'.name = "RETRY")
           => /\ state' = "linking"
              /\ live'.src = "linkWithBridge"
              /\ live'.input = [bridgeIpAddress |-> context.bridgeIpAddress,
                                bridgeId |-> context.bridgeId,
                                bridgeUsername |-> context.bridgeUsername]
    ]_vars

\* a link attempt failed, and RETRY in failedToLink started the next one
C10_Witness ==
  /\ state = "linking"
  /\ Dispatched("RETRY", "failedToLink")
  /\ live.src = "linkWithBridge"

\* C11: a connect attempt resolves exactly when the bridge answered the
\* authenticated request with status 200, and then connected is entered with a
\* HueClient; on a 403 answer it rejects with "Please check your username.",
\* on any other status with "Status code: " followed by that status, and in
\* both cases the machine goes from connecting to failedToConnect.
C11_ConnectOnlyOnSuccessStatus ==
  (last.name = "instantiateHueClient" /\ last.type \in {"done", "error"}) =>
    /\ last.from = "connecting"
    /\ last.type = "done" <=> last.detail.status = 200
    /\ last.type = "done" =>
         /\ state = "connected"
         /\ context.hueClient \in {s.n : s \in {x \in sessions : x.handle}}
    /\ last.detail.status = 403 =>
         /\ last.detail.error = "Please check your username."
         /\ state = "failedToConnect"
    /\ last.detail.status \in StatusCodes \ {200, 403} =>
         /\ last.detail.error = StatusCodeMessage(last.detail.status)
         /\ last.detail.error # StatusCodeMessage(200)
         /\ state = "failedToConnect"
    /\ last.type = "error" => state = "failedToConnect"

\* the bridge answered a connect attempt with a status that is neither 200 nor
\* 403, and failedToConnect was entered
C11_Witness ==
  /\ state = "failedToConnect"
  /\ Settled("error", "instantiateHueClient")
  /\ last.detail.status = 404

\* C12: loadPreferences succeeds, and loadingConfiguration is entered, exactly
\* when the address of the preferences is absent, empty or an IPv4 literal;
\* with any other address, an IPv6 literal included, failedToLoadPreferences
\* is entered.
C12_PreferencesAcceptOnlyIPv4 ==
  (last.name = "loadPreferences" /\ last.type \in {"done", "error"}) =>
    IF ~Truthy(preferences.bridgeIpAddress) \/ isIPv4(preferences.bridgeIpAddress)
    THEN last.type = "done" /\ state = "loadingConfiguration"
    ELSE last.type = "error" /\ state = "failedToLoadPreferences"

\* C13: failedToLoadPreferences is never left, and while the machine is there
\* no actor is started and the storage is not written.
C13_FailedToLoadPreferencesIsTerminal ==
  [][ state = "failedToLoadPreferences" =>
        /\ state' = "failedToLoadPreferences"
        /\ live' = NoActor
        /\ storage' = storage
        /\ sessions' = sessions
    ]_vars

\* C14: when the storage item cannot be parsed, loadConfiguration settles as it
\* does for an absent item: the machine stays active and enters linking if the
\* preferences give an address, else discoveringUsingPublicApi.
C14_UnparsableTreatedAsAbsent ==
  (last.name = "loadConfiguration" /\ last.type \in {"done", "error"} /\ storage = Unparsable) =>
    /\ status = "active"
    /\ state = IF Truthy(preferences.bridgeIpAddress) THEN "linking"
               ELSE "discoveringUsingPublicApi"

\* C15: once linked has saved the BridgeConfig produced by the link attempt,
\* loadConfiguration under the preferences of the run resolves with a
\* configuration equal to it in every field; once unlinkBridge has resolved,
\* loadConfiguration resolves with no configuration.
C15_StoreRoundTrip ==
  LET input == [bridgeIpAddress |-> preferences.bridgeIpAddress,
                bridgeUsername |-> preferences.bridgeUsername]
      loaded == loadConfiguration(input, storage)
  IN  /\ Settled("done", "saveBridgeConfigToLocalStorage") =>
           /\ loaded.ok
           /\ \A k \in ConfigKeys : loaded.output.bridgeConfig[k] = context.bridgeConfig[k]
      /\ Settled("done", "unlinkBridge") =>
           /\ loaded.ok
           /\ loaded.output.bridgeConfig = NoConfig

\* a configuration with no pinned certificate was produced by linking with a
\* paired username and has been saved
C15_Witness ==
  /\ state = "linked"
  /\ Settled("done", "saveBridgeConfigToLocalStorage")
  /\ context.bridgeConfig.selfSignedCertificate = Undefined
  /\ context.bridgeConfig.username = BridgeUsername
  /\ storage = JSONStringify(context.bridgeConfig)

\* the helper function fn was called and has returned
Returns(fn) == call.fn = fn /\ ret # NoCall

\* C16: getBridgeConfig called with a non-empty username never issues the
\* pairing POST and, when it resolves, returns that username; called with no
\* username it issues the pairing POST.
C16_PairingExactlyWhenNoUsername ==
  Returns("getBridgeConfig") =>
    IF Truthy(call.bridgeUsername)
    THEN /\ ~ret.value.posted
         /\ ret.value.ok => ret.value.output.username = call.bridgeUsername
    ELSE ret.value.posted

\* C16, amended: getBridgeConfig called with a non-empty username never issues
\* the pairing POST and, when it resolves, returns that username; called with
\* no username it issues the pairing POST exactly when the certificate of the
\* bridge was fetched and validated, and the username it returns is the one
\* the bridge answered.
C16_PairingWhenNoUsernameAndCertificateValid ==
  Returns("getBridgeConfig") =>
    IF Truthy(call.bridgeUsername)
    THEN /\ ~ret.value.posted
         /\ ret.value.ok => ret.value.output.username = call.bridgeUsername
    ELSE /\ ret.value.posted
              <=> getCertificate(call.env.tls, call.env.cert, call.bridgeId).ok
         /\ ret.value.ok => ret.value.output.username = call.env.pairing.username

\* a call with a username resolved although the bridge would have refused to pair
C16_Witness ==
  /\ Returns("getBridgeConfig")
  /\ call.bridgeUsername = PrefUsername
  /\ call.env.pairing.error = "link button not pressed"
  /\ ret.value.ok
  /\ ~ret.value.posted

\* C17: validateBridgeCertificate rejects every certificate whose subject CN is
\* not 16 hexadecimal characters as not a valid bridge id; it rejects every
\* certificate that passes the identity rules and whose issuer is neither the
\* subject nor root-bridge for its issuer; it accepts every certificate that
\* passes all rules.  The identity rules: the subject CN is 16 hexadecimal
\* characters, and equals the expected bridge id, letter case aside, when that
\* id is known.
C17_ValidationInRuleOrder ==
  Returns("validateBridgeCertificate") =>
    LET cert == call.peerCertificate
        wellFormedCN == cert.subjectCN \in {IdLower, IdUpper, IdOther}
        identityMatches ==
          call.bridgeId # Undefined => ToLowerCase(cert.subjectCN) = ToLowerCase(call.bridgeId)
        trustedIssuer == cert.issuerCN \in {cert.subjectCN, RootBridgeCN}
    IN  /\ ~wellFormedCN =>
             ret.value = "The CN of the certificate is not a valid Hue Bridge ID"
        /\ (wellFormedCN /\ identityMatches /\ ~trustedIssuer) =>
             ret.value = "Certificate issuer's Common Name does not match the expected value"
        /\ (wellFormedCN /\ identityMatches /\ trustedIssuer) => ret.value = "ok"

\* C18: validateBridgeCertificate accepts a certificate with a well-formed
\* subject CN and a trusted issuer when no bridge id is expected, and when the
\* expected bridge id differs from the subject CN only in letter case.
C18_IdentityMatchOnlyWhenKnownCaseInsensitive ==
  Returns("validateBridgeCertificate") =>
    LET cert == call.peerCertificate
    IN  (/\ cert.subjectCN \in {IdLower, IdUpper, IdOther}
         /\ cert.issuerCN \in {cert.subjectCN, RootBridgeCN}
         /\ \/ call.bridgeId = Undefined
            \/ /\ call.bridgeId # cert.subjectCN
               /\ ToLowerCase(call.bridgeId) = ToLowerCase(cert.subjectCN))
        => ret.value = "ok"

\* C19: an mDNS browser is live only while the machine is in
\* discoveringUsingMdns
C19_NoListenerInLaterStates ==
  LiveBrowsers # {} => state = "discoveringUsingMdns"

\* C20: discoverBridgeUsingHuePublicApi rejects a response whose status is not
\* 200 for its status; it rejects a 200 response with an empty body or an empty
\* array as no bridge found; it resolves a 200 response with a non-empty array
\* with the address and id of the first entry.
C20_RegistryResponseMapping ==
  (Returns("discoverBridgeUsingHuePublicApi") /\ ~call.response.error) =>
    LET response == call.response
    IN  /\ response.statusCode # 200 =>
             ret.value = Reject("Unexpected status code from MeetHue's public API")
        /\ (response.statusCode = 200 /\ (response.data = "" \/ response.json = <<>>)) =>
             ret.value = Reject("Could not find a Hue Bridge using MeetHue's public API")
        /\ (response.statusCode = 200 /\ response.json # <<>>) =>
             /\ ret.value.ok
             /\ ret.value.output.ipAddress = Head(response.json).internalipaddress
             /\ ret.value.output.id = Head(response.json).id

\* the registry answered with two different bridges and the call resolved
C20_Witness ==
  /\ Returns("discoverBridgeUsingHuePublicApi")
  /\ Len(call.response.json) = 2
  /\ call.response.json[1] # call.response.json[2]
  /\ ret.value.ok

\* C21: at most one invoked operation is pending at any moment
C21_OneOperationAtATime ==
  Cardinality(Running) <= 1

\* C22: failedToConnect, failedToLink and noBridgeFound are left only by a
\* dispatched event, nothing is started while the machine stays in one of
\* them, and the failed stage (connecting, linking, discoveringUsingPublicApi)
\* is entered from them only by RETRY.
C22_NoAutomaticRetry ==
  [][ (state \in {"failedToConnect", "failedToLink", "noBridgeFound"}) =>
        LET stage == IF state = "failedToConnect" THEN "connecting"
                     ELSE IF state = "failedToLink" THEN "linking"
                     ELSE "discoveringUsingPublicApi"
        IN  /\ live = NoActor
            /\ (state' = state) => (live' = NoActor)
            /\ (state' # state) => (last'.type = "event")
            /\ (state' = stage) => (last'.type = "event" /\ last'.name = "RETRY")
    ]_vars

\* a connect attempt failed, and RETRY in failedToConnect started the next one
C22_Witness ==
  /\ state = "connecting"
  /\ Dispatched("RETRY", "failedToConnect")
  /\ live.src = "instantiateHueClient"

\* C23: when a discovery resolves, the context holds the address and bridge id
\* it resolved with and the machine enters linking if the context holds a
\* username, else linkWithBridge; in linkWithBridge no actor is running, and
\* linking is entered from there only by LINK.
C23_DiscoverySuccessRouting ==
  [][ /\ (/\ last'.type = "done"
          /\ last'.name \in {"discoverBridgeUsingHuePublicApi", "discoverBridgeUsingMdns"})
           => /\ context'.bridgeIpAddress = last'.detail.ipAddress
              /\ context'.bridgeId = last'.detail.id
              /\ context'.bridgeUsername = context.bridgeUsername
              /\ state' = IF Truthy(context.bridgeUsername) THEN "linking" ELSE "linkWithBridge"
              /\ live'.src = IF Truthy(context.bridgeUsername) THEN "linkWithBridge" ELSE "none"
      /\ (state = "linkWithBridge") => (live = NoActor)
      /\ (state = "linkWithBridge" /\ state' = "linkWithBridge") => (live' = NoActor)
      /\ (state = "linkWithBridge" /\ live'.src = "linkWithBridge")
           => (last'.type = "event" /\ last'.name = "LINK" /\ state' = "linking")
    ]_vars

\* local discovery found a bridge while no username was known, and LINK in
\* linkWithBridge started the link attempt with what was discovered
C23_Witness ==
  /\ state = "linking"
  /\ Dispatched("LINK", "linkWithBridge")
  /\ live.src = "linkWithBridge"
  /\ live.input.bridgeIpAddress = BridgeIp
  /\ live.input.bridgeId = IdLower
  /\ live.input.bridgeUsername = Undefined

\* C24: for every BridgeConfig, the lookup option resolves the hostname that
\* connect derives from the bridge id to the address of the configuration,
\* whatever the default DNS lookup would answer.
C24_LookupMapsBridgeIdToAddress ==
  Returns("lookup") => ret.value = call.bridgeConfig.ipAddress

\* C25: checkServerIdentity accepts a certificate exactly when
\* validateBridgeCertificate accepts it for the bridge id of the configuration
\* and, when the configuration holds a pinned certificate, the issuer CN is
\* that bridge id.
C25_HandshakeCheckAgreesWithValidator ==
  Returns("checkServerIdentity") =>
    LET config == call.bridgeConfig
        byValidator ==
          /\ validateBridgeCertificate(call.cert, config.id) = "ok"
          /\ config.selfSignedCertificate # Undefined => call.cert.issuerCN = config.id
    IN  (ret.value = "ok") <=> byValidator

\* C26: a link attempt that issued the pairing POST or established a session
\* had fetched and validated the certificate first; an attempt whose
\* certificate fails validation rejects with the validation error without
\* issuing the pairing POST or establishing a session, and the machine enters
\* failedToLink.
C26_CertificateValidatedBeforePairing ==
  LET validationErrors ==
        {"The CN of the certificate is not a valid Hue Bridge ID",
         "Certificate subject's Common Name does not match the Bridge ID",
         "Certificate issuer's Common Name does not match the expected value"}
  IN  (last.name = "linkWithBridge" /\ last.type \in {"done", "error"}) =>
        /\ last.detail.error \in validationErrors =>
             /\ last.type = "error"
             /\ ~last.detail.posted
             /\ ~last.detail.opened
             /\ state = "failedToLink"
        /\ (last.detail.posted \/ last.detail.opened) =>
             last.detail.error \notin validationErrors \cup {"socket error", "No bridge IP address"}

\* the bridge found by discovery presented a certificate of a foreign issuer
\* and the link attempt failed on it
C26_Witness ==
  /\ state = "failedToLink"
  /\ Settled("error", "linkWithBridge")
  /\ last.detail.error = "Certificate issuer's Common Name does not match the expected value"
  /\ context.bridgeId = IdLower

\* C27: RETRY dispatched outside failedToConnect, failedToLink and
\* noBridgeFound, and LINK dispatched outside linkWithBridge, change neither
\* the state nor the context, and leave the pending promises, the storage and
\* the sessions as they are.
C27_UnacceptedEventsAreNoOps ==
  [][ (/\ last'.type = "event"
       /\ \/ /\ last'.name = "RETRY"
             /\ state \notin {"failedToConnect", "failedToLink", "noBridgeFound"}
          \/ /\ last'.name = "LINK"
             /\ state # "linkWithBridge")
        => /\ state' = state
           /\ status' = status
           /\ context' = context
           /\ live' = live
           /\ stale' = stale
           /\ storage' = storage
           /\ sessions' = sessions
    ]_vars

\* RETRY was dispatched during a link attempt, which is still in flight
C27_Witness ==
  /\ state = "linking"
  /\ Dispatched("RETRY", "linking")
  /\ live.src = "linkWithBridge"

\* C28: when loadConfiguration resolves on a stored item, the BridgeConfig put
\* in the context has the address of the preferences if they give one, else
\* the stored address; the username of the preferences if they give one, else
\* the stored username; the stored id and the stored pinned certificate; and
\* the storage item is left as it was.
C28_LoadMergesPreferences ==
  [][ (last'.type = "done" /\ last'.name = "loadConfiguration" /\ storage # NoItem)
        => LET loaded == context'.bridgeConfig
           IN  /\ storage' = storage
               /\ loaded.ipAddress = IF Truthy(preferences.bridgeIpAddress)
                                     THEN preferences.bridgeIpAddress
                                     ELSE storage["ipAddress"]
               /\ loaded.username = IF Truthy(preferences.bridgeUsername)
                                    THEN preferences.bridgeUsername
                                    ELSE storage["username"]
               /\ loaded.id = storage["id"]
               /\ loaded.selfSignedCertificate =
                    IF "selfSignedCertificate" \in DOMAIN storage
                    THEN storage["selfSignedCertificate"]
                    ELSE Undefined
    ]_vars

\* a stored configuration was loaded under preferences that give another
\* address and another username
C28_Witness ==
  /\ state = "connecting"
  /\ Settled("done", "loadConfiguration")
  /\ preferences.bridgeIpAddress = PrefIp
  /\ preferences.bridgeUsername = PrefUsername
  /\ context.bridgeConfig.ipAddress = PrefIp
  /\ context.bridgeConfig.username = PrefUsername
  /\ storage["ipAddress"] = BridgeIp
  /\ storage["username"] = BridgeUsername

\* C29: linkWithBridge is always invoked with a bridge address, and never
\* rejects with "No bridge IP address"
C29_LinkAlwaysHasAddress ==
  /\ \A r \in Running :
       r.actor.src = "linkWithBridge" => r.actor.input.bridgeIpAddress # Undefined
  /\ state = "linking" => context.bridgeIpAddress # Undefined
  /\ Settled("error", "linkWithBridge") => last.detail.error # "No bridge IP address"

\* C30: instantiateHueClient is always invoked with a BridgeConfig, and never
\* rejects with "Bridge configuration is undefined when trying to connect"
C30_ConnectAlwaysHasConfig ==
  /\ \A r \in Running :
       r.actor.src = "instantiateHueClient" => r.actor.input.bridgeConfig # NoConfig
  /\ state = "connecting" => context.bridgeConfig # NoConfig
  /\ Settled("error", "instantiateHueClient") =>
       last.detail.error # "Bridge configuration is undefined when trying to connect"

\* connecting was entered from linked with the configuration the link attempt
\* produced
C30_Witness ==
  /\ state = "connecting"
  /\ Dispatched("DONE", "linked")
  /\ live.src = "instantiateHueClient"
  /\ live.input.bridgeConfig = context.bridgeConfig
  /\ context.bridgeConfig # NoConfig

\* C31: when getBridgeConfig resolves, so that the certificate passed
\* validateBridgeCertificate, checkServerIdentity accepts that certificate for
\* the BridgeConfig returned.
C31_LinkAndConnectTrustAgree ==
  (Returns("getBridgeConfig") /\ ret.value.ok) =>
    /\ validateBridgeCertificate(call.env.cert, call.bridgeId) = "ok"
    /\ checkServerIdentity(ret.value.output, call.env.cert) = "ok"

\* getBridgeConfig resolved on a self-signed certificate, which it pinned
C31_Witness ==
  /\ Returns("getBridgeConfig")
  /\ ret.value.ok
  /\ call.env.cert.issuerCN = call.env.cert.subjectCN
  /\ ret.value.output.selfSignedCertificate = createPemString(call.env.cert)

\* C32: from the moment the storage is found or made absent until linked is
\* next entered, that is in the discovery and link states, the storage item
\* stays absent
C32_StorageStaysAbsentAfterUnlink ==
  state \in {"discoveringUsingPublicApi", "discoveringUsingMdns", "noBridgeFound",
             "linkWithBridge", "linking", "failedToLink"}
    => storage = NoItem

C34_OverrideAddressPreserved ==
  (isIPv4(preferences.bridgeIpAddress) /\ state # "loadingPreferences") =>
    /\ context.bridgeIpAddress = preferences.bridgeIpAddress
    /\ state \notin {"discoveringUsingPublicApi", "discoveringUsingMdns"}
    /\ \A r \in Running :
         r.actor.src \notin {"discoverBridgeUsingHuePublicApi", "discoverBridgeUsingMdns"}

\* under an address override a stored configuration was unlinked, and linking
\* was entered with the override
C34_Witness ==
  /\ preferences.bridgeIpAddress = PrefIp
  /\ state = "linking"
  /\ Settled("done", "unlinkBridge")
  /\ live.input.bridgeIpAddress = PrefIp
====
